---------------------------- MODULE Spec2Model ----------------------------
(* Model of update_debug.py: the batch runner main() and the per-file     *)
(* rewrite update_file(filepath, class_name).                              *)
(*                                                                         *)
(* Text is modelled as a sequence of lexemes.  Each lexeme is the literal  *)
(* character string it is written as; the document is the concatenation    *)
(* of its lexemes.  The characters the regular expressions of the script   *)
(* treat specially -- ")", ";", "{", "}" and white space -- are lexemes    *)
(* of their own and occur inside no other lexeme, and every literal the    *)
(* script searches for is a sequence of whole lexemes, so matching on      *)
(* lexemes is matching on characters.                                      *)
EXTENDS Naturals, Sequences, FiniteSets

\* ------------------------------------------------------------- bounds
\* Number of fragments a generated document is put together from.
MaxParts == 3
\* Number of entries of the configuration table in the batch scenario.
NFiles == 3

\* ------------------------------------------------------------ strings

\* files_config (its first entries, in mapping order): component names.
FilesConfig ==
  <<"CleanupManager", "CryptoManager", "DistributedStorageManager",
    "EnvironmentDetector", "EventEmitter", "EvictionManager">>

\* "import DebugLogger from './DebugLogger.js';"
ImportLine == <<"import", " DebugLogger", " from './DebugLogger.js'", ";">>

\* 'import DebugLogger'
ImportMarker == <<"import", " DebugLogger">>

\* 'this.debug = DebugLogger.create'
LoggerMarker == <<"this.debug", " = DebugLogger.create">>

\* f"\n    this.debug = DebugLogger.create('{class_name}');"
LoggerLine(class_name) ==
  <<"\n    ", "this.debug", " = DebugLogger.create", "('", class_name, "'",
    ")", ";">>

\* 'super();'
SuperCall == <<"super(", ")", ";">>

\* Lexemes matched by \s.
WhiteSpace == {"\n", "\n    ", " "}

\* Faulty variant of Replacements: console.warn( is rewritten to the log
\* category.
ReplacementsWarnAsLog ==
  << <<  <<"console", ".log(">>,   <<"this.debug", ".log(">>   >>,
     <<  <<"console", ".warn(">>,  <<"this.debug", ".log(">>   >>,
     <<  <<"console", ".error(">>, <<"this.debug", ".error(">> >>,
     <<  <<"console", ".info(">>,  <<"this.debug", ".info(">>  >>,
     <<  <<"console", ".debug(">>, <<"this.debug", ".debug(">> >> >>

\* The five (pattern, replacement) pairs, in the order of the list.
Replacements ==
  << <<  <<"console", ".log(">>,   <<"this.debug", ".log(">>   >>,
     <<  <<"console", ".warn(">>,  <<"this.debug", ".warn(">>  >>,
     <<  <<"console", ".error(">>, <<"this.debug", ".error(">> >>,
     <<  <<"console", ".info(">>,  <<"this.debug", ".info(">>  >>,
     <<  <<"console", ".debug(">>, <<"this.debug", ".debug(">> >> >>

\* ------------------------------------------------- string operations

Min(S) == CHOOSE x \in S : \A y \in S : x <= y
Max(S) == CHOOSE x \in S : \A y \in S : x >= y

\* s[p:].startswith(pat)
StartsAt(s, pat, p) ==
  /\ p >= 1
  /\ p + Len(pat) - 1 <= Len(s)
  /\ \A k \in 1..Len(pat) : s[p + k - 1] = pat[k]

\* s.find(pat), 1-based; 0 when pat does not occur.
Find(s, pat) ==
  LET hits == {p \in 1..Len(s) : StartsAt(s, pat, p)}
  IN IF hits = {} THEN 0 ELSE Min(hits)

\* pat in s
Contains(s, pat) == Find(s, pat) # 0

\* s.replace(old, new, 1)
ReplaceFirst(s, old, new) ==
  LET p == Find(s, old)
  IN IF p = 0 THEN s
     ELSE SubSeq(s, 1, p - 1) \o new \o SubSeq(s, p + Len(old), Len(s))

\* re.sub(old, new, s) for a literal pattern: every non-overlapping
\* occurrence, left to right.
RECURSIVE ReSub(_, _, _)
ReSub(s, old, new) ==
  LET p == Find(s, old)
  IN IF p = 0 THEN s
     ELSE SubSeq(s, 1, p - 1) \o new
          \o ReSub(SubSeq(s, p + Len(old), Len(s)), old, new)

\* ---------------------------------------------------- anchor location

\* A match of r'(import[^;]+;)' that starts at p: the position of its
\* closing ";", or 0.  "import" must be followed by at least one character
\* other than ";", and the match runs to the next ";".
ImportMatchEnd(s, p) ==
  IF p + 1 <= Len(s) /\ s[p] = "import" /\ s[p + 1] # ";"
  THEN LET semis == {q \in (p + 2)..Len(s) : s[q] = ";"}
       IN IF semis = {} THEN 0 ELSE Min(semis)
  ELSE 0

\* re.findall(import_pattern, s[p:]): the matched texts, left to right,
\* without overlap.
RECURSIVE FindAllImports(_, _)
FindAllImports(s, p) ==
  IF p > Len(s) THEN <<>>
  ELSE LET e == ImportMatchEnd(s, p)
       IN IF e = 0 THEN FindAllImports(s, p + 1)
          ELSE <<SubSeq(s, p, e)>> \o FindAllImports(s, e + 1)

\* A match of r'(constructor\([^)]*\)\s*{[^}]*super\(\);)' that starts at
\* p: the position of its last lexeme, or 0.  [^)]* runs to the first ")",
\* \s* over white space to a "{", and the greedy [^}]* to the last
\* 'super();' that lies before the first "}".
CtorMatchEnd(s, p) ==
  IF p <= Len(s) /\ s[p] = "constructor("
  THEN LET closes == {q \in (p + 1)..Len(s) : s[q] = ")"}
       IN IF closes = {} THEN 0
          ELSE LET q == Min(closes)
                   rest == {r \in (q + 1)..Len(s) : s[r] \notin WhiteSpace}
               IN IF rest = {} THEN 0
                  ELSE LET r == Min(rest)
                           ends == {e \in (r + 1)..Len(s) : s[e] = "}"}
                           limit == IF ends = {} THEN Len(s) + 1 ELSE Min(ends)
                           supers == {t \in (r + 1)..(limit - 1) :
                                        /\ StartsAt(s, SuperCall, t)
                                        /\ t + Len(SuperCall) - 1 < limit}
                       IN IF s[r] = "{" /\ supers # {}
                          THEN Max(supers) + Len(SuperCall) - 1
                          ELSE 0
  ELSE 0

\* re.search(constructor_pattern, s, re.DOTALL): <<start, end>> of the
\* leftmost match, <<0, 0>> when there is none.
SearchCtor(s) ==
  LET starts == {p \in 1..Len(s) : CtorMatchEnd(s, p) # 0}
  IN IF starts = {} THEN <<0, 0>>
     ELSE <<Min(starts), CtorMatchEnd(s, Min(starts))>>

\* ------------------------------------------------- the three rewrites

\* Faulty variant of InsertImport: the presence check of line 39 is left
\* out.
InsertImportUnguarded(content) ==
  LET imports == FindAllImports(content, 1)
  IN IF imports # <<>>
     THEN LET last_import == imports[Len(imports)]
              replacement == last_import \o <<"\n">> \o ImportLine
          IN ReplaceFirst(content, last_import, replacement)
     ELSE ImportLine \o <<"\n">> \o content

\* Faulty variant of InsertImport: with no import statement the line is
\* added at the end of the document.
InsertImportAppended(content) ==
  IF ~Contains(content, ImportMarker)
  THEN LET imports == FindAllImports(content, 1)
       IN IF imports # <<>>
          THEN LET last_import == imports[Len(imports)]
                   replacement == last_import \o <<"\n">> \o ImportLine
               IN ReplaceFirst(content, last_import, replacement)
          ELSE content \o <<"\n">> \o ImportLine
  ELSE content

\* Lines 39-49: the import insertion.
InsertImport(content) ==
  IF ~Contains(content, ImportMarker)
  THEN LET imports == FindAllImports(content, 1)
       IN IF imports # <<>>
          THEN LET last_import == imports[Len(imports)]
                   replacement == last_import \o <<"\n">> \o ImportLine
               IN ReplaceFirst(content, last_import, replacement)
          ELSE ImportLine \o <<"\n">> \o content
  ELSE content

\* Faulty variant of InsertLogger: replace() without its count, so every
\* occurrence of the matched text gets the line.
InsertLoggerEveryCtor(content, class_name) ==
  IF ~Contains(content, LoggerMarker)
  THEN LET match == SearchCtor(content)
       IN IF match[1] # 0
          THEN LET old_constructor == SubSeq(content, match[1], match[2])
                   new_constructor == old_constructor \o LoggerLine(class_name)
               IN ReSub(content, old_constructor, new_constructor)
          ELSE content
  ELSE content

\* Faulty variant of InsertLogger: without a constructor match the line is
\* put in front of the document.
InsertLoggerAtTop(content, class_name) ==
  IF ~Contains(content, LoggerMarker)
  THEN LET match == SearchCtor(content)
       IN IF match[1] # 0
          THEN LET old_constructor == SubSeq(content, match[1], match[2])
                   new_constructor == old_constructor \o LoggerLine(class_name)
               IN ReplaceFirst(content, old_constructor, new_constructor)
          ELSE LoggerLine(class_name) \o content
  ELSE content

\* Faulty variant of InsertLogger: the presence check of line 52 is left
\* out.
InsertLoggerUnguarded(content, class_name) ==
  LET match == SearchCtor(content)
  IN IF match[1] # 0
     THEN LET old_constructor == SubSeq(content, match[1], match[2])
              new_constructor == old_constructor \o LoggerLine(class_name)
          IN ReplaceFirst(content, old_constructor, new_constructor)
     ELSE content

\* Lines 52-59: the logger-acquisition insertion.
InsertLogger(content, class_name) ==
  IF ~Contains(content, LoggerMarker)
  THEN LET match == SearchCtor(content)
       IN IF match[1] # 0
          THEN LET old_constructor == SubSeq(content, match[1], match[2])
                   new_constructor == old_constructor \o LoggerLine(class_name)
               IN ReplaceFirst(content, old_constructor, new_constructor)
          ELSE content
  ELSE content

\* Lines 70-71: the loop over the replacement pairs, from pair k on.
RECURSIVE ApplyReplacements(_, _)
ApplyReplacements(content, k) ==
  IF k > Len(Replacements) THEN content
  ELSE ApplyReplacements(
         ReSub(content, Replacements[k][1], Replacements[k][2]), k + 1)

\* Lines 61-71: the call-site substitution.
SubstituteCalls(content) == ApplyReplacements(content, 1)

\* Lines 38-71: the whole content transform of update_file.
Transform(content, class_name) ==
  SubstituteCalls(InsertLogger(InsertImport(content), class_name))

\* ---------------------------------------------------------- documents

\* Pieces of source text the generated documents are put together from.
Fragments ==
  { <<"import", "x", ";">>,
    <<"import">>,
    <<";">>,
    ImportMarker,
    <<"constructor(", ")", "{", "super(", ")", ";">>,
    <<"constructor(", "x", ")", "\n", "{">>,
    SuperCall,
    <<"}">>,
    LoggerMarker,
    <<"console", ".log(">>,
    <<"console", ".warn(", "x", ")", "console", ".error(">>,
    <<"console", "console", ".info(", "console", ".debug(">> }

\* Every concatenation of at most n fragments.
RECURSIVE DocsOf(_)
DocsOf(n) ==
  IF n = 0 THEN {<<>>}
  ELSE LET shorter == DocsOf(n - 1)
       IN shorter \cup {d \o f : d \in shorter, f \in Fragments}

Docs == DocsOf(MaxParts)

\* The documents of the batch scenario: a class file and a plain script.
BatchDocs ==
  { <<"import", "x", ";", "\n", "constructor(", ")", " ", "{", "super(",
      ")", ";", "console", ".log(", "x", ")", ";", "}">>,
    <<"console", ".warn(", "x", ")", ";">>,
    ImportLine \o <<"\n", "constructor(", ")", "{", "super(", ")", ";">>
      \o LoggerLine("Widget") \o <<"}">> }

Present(text) == [exists |-> TRUE, text |-> text]
Absent == [exists |-> FALSE, text |-> <<>>]

\* -------------------------------------------------------------- state

VARIABLES
  cfg,      \* the configuration table: entry k is the component name of path k
  fs,       \* the file system: fs[k] is the file at path k
  fs0,      \* fs when this invocation of main() started
  i,        \* position of the for loop of main() in the table
  pc,       \* where the program is
  content,  \* update_file's local variable
  orig,     \* what update_file read from the file
  pre,      \* content before the latest rewrite step
  out,      \* what has been printed by this invocation
  ran,      \* main() has run to completion before this invocation
  failed    \* an I/O operation of this invocation raised

vars == <<cfg, fs, fs0, i, pc, content, orig, pre, out, ran, failed>>

N == Len(cfg)

\* One configured file holding any generated document.
InitSingle ==
  /\ cfg = <<FilesConfig[1]>>
  /\ \E d \in Docs : fs = <<Present(d)>>

\* A table of NFiles entries, each path absent or holding a batch document.
InitBatch ==
  /\ cfg = SubSeq(FilesConfig, 1, NFiles)
  /\ fs \in [1..NFiles -> {Absent} \cup {Present(d) : d \in BatchDocs}]

Init ==
  /\ InitSingle \/ InitBatch
  /\ fs0 = fs
  /\ i = 1
  /\ pc = "loop"
  /\ content = <<>>
  /\ orig = <<>>
  /\ pre = <<>>
  /\ out = <<>>
  /\ ran = FALSE
  /\ failed = FALSE

\* ------------------------------------------------------------ actions

\* Faulty variant of SkipMissing: a missing file ends the loop.
SkipMissingEndsLoop ==
  /\ pc = "loop" /\ i <= N
  /\ ~fs[i].exists
  /\ out' = Append(out, <<"skip", i>>)
  /\ i' = N + 1
  /\ UNCHANGED <<cfg, fs, fs0, pc, content, orig, pre, ran, failed>>

\* Lines 29-31: the path does not exist; report and return.
SkipMissing ==
  /\ pc = "loop" /\ i <= N
  /\ ~fs[i].exists
  /\ out' = Append(out, <<"skip", i>>)
  /\ i' = i + 1
  /\ UNCHANGED <<cfg, fs, fs0, pc, content, orig, pre, ran, failed>>

\* Lines 33-36: the file is read.
ReadFile ==
  /\ pc = "loop" /\ i <= N
  /\ fs[i].exists
  /\ out' = Append(out, <<"updating", i>>)
  /\ content' = fs[i].text
  /\ orig' = fs[i].text
  /\ pre' = fs[i].text
  /\ pc' = "import"
  /\ UNCHANGED <<cfg, fs, fs0, i, ran, failed>>

\* Faulty variant of ReadError: the exception is caught in the loop, which
\* goes on to the next entry.
ReadErrorCaught ==
  /\ pc = "loop" /\ i <= N
  /\ fs[i].exists
  /\ out' = Append(out, <<"updating", i>>)
  /\ failed' = TRUE
  /\ i' = i + 1
  /\ UNCHANGED <<cfg, fs, fs0, pc, content, orig, pre, ran>>

\* Lines 33-36: open() or read() raises; nothing catches it.
ReadError ==
  /\ pc = "loop" /\ i <= N
  /\ fs[i].exists
  /\ out' = Append(out, <<"updating", i>>)
  /\ failed' = TRUE
  /\ pc' = "raised"
  /\ UNCHANGED <<cfg, fs, fs0, i, content, orig, pre, ran>>

\* Lines 38-49.
ImportInsertion ==
  /\ pc = "import"
  /\ pre' = content
  /\ content' = InsertImport(content)
  /\ pc' = "logger"
  /\ UNCHANGED <<cfg, fs, fs0, i, orig, out, ran, failed>>

\* Lines 51-59.
LoggerInsertion ==
  /\ pc = "logger"
  /\ pre' = content
  /\ content' = InsertLogger(content, cfg[i])
  /\ pc' = "calls"
  /\ UNCHANGED <<cfg, fs, fs0, i, orig, out, ran, failed>>

\* Lines 61-71.
CallSiteSubstitution ==
  /\ pc = "calls"
  /\ pre' = content
  /\ content' = SubstituteCalls(content)
  /\ pc' = "write"
  /\ UNCHANGED <<cfg, fs, fs0, i, orig, out, ran, failed>>

\* Lines 73-77: the file is overwritten and update_file returns.
WriteFile ==
  /\ pc = "write"
  /\ fs' = [fs EXCEPT ![i] = Present(content)]
  /\ out' = Append(out, <<"updated", i>>)
  /\ i' = i + 1
  /\ pc' = "loop"
  /\ content' = <<>> /\ orig' = <<>> /\ pre' = <<>>
  /\ UNCHANGED <<cfg, fs0, ran, failed>>

\* Lines 74-75: open() raises and leaves the file as it was, or write()
\* raises after open() truncated it; nothing catches it.
WriteError ==
  /\ pc = "write"
  /\ \E left \in {fs[i].text, <<>>} : fs' = [fs EXCEPT ![i] = Present(left)]
  /\ failed' = TRUE
  /\ pc' = "raised"
  /\ UNCHANGED <<cfg, fs0, i, content, orig, pre, out, ran>>

\* Lines 87-100: the loop is over; the completion banner.
Banner ==
  /\ pc = "loop" /\ i = N + 1
  /\ out' = Append(out, <<"complete", 0>>)
  /\ pc' = "done"
  /\ UNCHANGED <<cfg, fs, fs0, i, content, orig, pre, ran, failed>>

\* Lines 102-103: the script is run again on the files it left.
RunAgain ==
  /\ pc = "done"
  /\ ~ran
  /\ ran' = TRUE
  /\ fs0' = fs
  /\ i' = 1
  /\ out' = <<>>
  /\ pc' = "loop"
  /\ UNCHANGED <<cfg, fs, content, orig, pre, failed>>

Next ==
  \/ SkipMissing
  \/ ReadFile
  \/ ReadError
  \/ ImportInsertion
  \/ LoggerInsertion
  \/ CallSiteSubstitution
  \/ WriteFile
  \/ WriteError
  \/ Banner
  \/ RunAgain

Spec == Init /\ [][Next]_vars

\* ------------------------------------------- vocabulary of the claims

\* s with ins spliced in after position p.
InsertAt(s, p, ins) == SubSeq(s, 1, p) \o ins \o SubSeq(s, p + 1, Len(s))

\* Number of places of s where pat occurs.
Occurrences(s, pat) == Cardinality({p \in 1..Len(s) : StartsAt(s, pat, p)})

\* An import statement occupies positions p..e of s: "import", at least one
\* character, and nothing but its closing ";" at e is a ";".
IsImportStmt(s, p, e) ==
  /\ 1 <= p /\ p + 2 <= e /\ e <= Len(s)
  /\ s[p] = "import" /\ s[e] = ";"
  /\ \A k \in (p + 1)..(e - 1) : s[k] # ";"

HasImportStmt(s) == \E p, e \in 1..Len(s) : IsImportStmt(s, p, e)

\* The statements of s read off left to right, none inside another: the end
\* of the last one that starts at or after p (0: none does).
RECURSIVE LastImportEnd(_, _)
LastImportEnd(s, p) ==
  IF p > Len(s) THEN 0
  ELSE LET ends == {e \in p..Len(s) : IsImportStmt(s, p, e)}
       IN IF ends = {} THEN LastImportEnd(s, p + 1)
          ELSE LET later == LastImportEnd(s, Min(ends) + 1)
               IN IF later = 0 THEN Min(ends) ELSE later

\* A constructor starts at p of s and the 'super();' at t..t+2 lies in its
\* body before any "}".
IsCtorWithSuper(s, p, t) ==
  /\ 1 <= p /\ p <= Len(s) /\ s[p] = "constructor("
  /\ StartsAt(s, SuperCall, t)
  /\ \E q \in (p + 1)..(t - 2) :
       /\ s[q] = ")" /\ \A k \in (p + 1)..(q - 1) : s[k] # ")"
       /\ \E r \in (q + 1)..(t - 1) :
            /\ s[r] = "{" /\ \A k \in (q + 1)..(r - 1) : s[k] \in WhiteSpace
            /\ \A k \in (r + 1)..(t - 1) : s[k] # "}"

CtorStarts(s) ==
  {p \in 1..Len(s) : \E t \in 1..Len(s) : IsCtorWithSuper(s, p, t)}

HasCtor(s) == CtorStarts(s) # {}

\* The 'super();' calls of the first constructor of s (their positions).
FirstCtorSupers(s) ==
  LET first == Min(CtorStarts(s))
  IN {t \in 1..Len(s) : IsCtorWithSuper(s, first, t)}

Categories == {".log(", ".warn(", ".error(", ".info(", ".debug("}

\* A 'console.<category>(' opener starts at k of s.
IsOpener(s, k) ==
  k + 1 <= Len(s) /\ s[k] = "console" /\ s[k + 1] \in Categories

HasOpener(s) == \E k \in 1..Len(s) : IsOpener(s, k)

\* t is s with each opener's 'console' turned into 'this.debug' and every
\* other lexeme as it was.
OpenersRewritten(s, t) ==
  /\ Len(t) = Len(s)
  /\ \A k \in 1..Len(s) :
       t[k] = IF IsOpener(s, k) THEN "this.debug" ELSE s[k]

\* What main() prints for entries 1..n when nothing raises.
RECURSIVE ExpectedOut(_)
ExpectedOut(n) ==
  IF n = 0 THEN <<>>
  ELSE ExpectedOut(n - 1)
       \o (IF fs0[n].exists
           THEN << <<"updating", n>>, <<"updated", n>> >>
           ELSE << <<"skip", n>> >>)

\* Entries 1..n are as a finished update_file leaves them.
Processed(n) ==
  \A k \in 1..n :
    fs[k] = IF fs0[k].exists
            THEN Present(Transform(fs0[k].text, cfg[k]))
            ELSE Absent

\* -------------------------------------------------------------- claims

\* C1: idempotence.  Once main() has run to completion, a further run that
\* meets no I/O failure leaves every file's content exactly as the earlier
\* run left it, and what it is about to write is what it read.
C1_Idempotent ==
  (ran /\ ~failed) =>
    /\ \A k \in 1..N : fs[k] = fs0[k]
    /\ pc = "write" => content = orig

\* A second run has rewritten nothing on a file the first run migrated.
C1_Witness ==
  /\ ran /\ pc = "done" /\ ~failed
  /\ Contains(fs[1].text, ImportLine)
  /\ Contains(fs[1].text, LoggerLine(cfg[1]))
  /\ Contains(fs[1].text, <<"this.debug", ".log(">>)

\* C2: import insertion placement.  For a document without the text
\* 'import DebugLogger' and with at least one import statement, the import
\* step splices "\nimport DebugLogger from './DebugLogger.js';" in once,
\* immediately after the lexically last import statement, also when that
\* statement's text occurs earlier in the document.
C2_AfterLastImport ==
  (pc = "logger" /\ ~Contains(pre, ImportMarker) /\ HasImportStmt(pre)) =>
    content = InsertAt(pre, LastImportEnd(pre, 1), <<"\n">> \o ImportLine)

\* C3: fallback import insertion.  For a document with no import statement
\* and without the text 'import DebugLogger', the import step puts the
\* import line and a newline in front of the document, and the output is
\* that line, the newline, and the otherwise transformed document.
C3_FallbackPrepends ==
  /\ (pc = "logger" /\ ~Contains(pre, ImportMarker) /\ ~HasImportStmt(pre)) =>
       content = ImportLine \o <<"\n">> \o pre
  /\ (pc = "write" /\ ~Contains(orig, ImportMarker) /\ ~HasImportStmt(orig)) =>
       content = ImportLine \o <<"\n">>
                   \o SubstituteCalls(InsertLogger(orig, cfg[i]))

\* The fallback was taken on a document with a constructor and a call site.
C3_Witness ==
  /\ pc = "write" /\ ~ran
  /\ ~Contains(orig, ImportMarker) /\ ~HasImportStmt(orig)
  /\ HasCtor(orig) /\ HasOpener(orig)
  /\ SubSeq(content, 1, Len(ImportLine)) = ImportLine

\* C4: logger-acquisition placement.  For a document without the text
\* 'this.debug = DebugLogger.create' that has a constructor with a
\* 'super();' before its first "}", the logger step splices exactly one
\* line "\n    this.debug = DebugLogger.create('<C>');", C the component
\* name of the file, immediately after a 'super();' of the first such
\* constructor, and changes nothing else: no other constructor gets one.
C4_LoggerAfterFirstCtorSuper ==
  (pc = "calls" /\ ~Contains(orig, LoggerMarker) /\ HasCtor(orig)) =>
    /\ HasCtor(pre)
    /\ \E t \in FirstCtorSupers(pre) :
         content = InsertAt(pre, t + Len(SuperCall) - 1, LoggerLine(cfg[i]))
    /\ Occurrences(content, LoggerMarker) = 1

\* The line was inserted in a document with two constructors.
C4_Witness ==
  /\ pc = "calls" /\ ~Contains(orig, LoggerMarker)
  /\ Cardinality(CtorStarts(pre)) >= 2
  /\ Contains(content, LoggerLine(cfg[i]))

\* C5: call-site substitution coverage.  After the substitution step the
\* text holds none of the five 'console.<category>(' openers; each opener
\* of the text before the step has become 'this.debug.<category>(' of the
\* same category, and everything else is unchanged.
C5_AllOpenersRewritten ==
  pc = "write" =>
    /\ ~HasOpener(content)
    /\ OpenersRewritten(pre, content)

\* All five categories were rewritten in one document.
C5_Witness ==
  /\ pc = "write"
  /\ \A c \in Categories : Contains(pre, <<"console", c>>)
  /\ \A c \in Categories : Contains(content, <<"this.debug", c>>)

\* C6: no-anchor tolerance.  For a document with no constructor-with-
\* 'super();' pattern the logger step changes nothing, the output is the
\* document after the import insertion with its openers rewritten, it has
\* no logger-acquisition statement unless the document had one, and the
\* write is reached.
C6_NoAnchorTolerated ==
  (pc \in {"calls", "write"} /\ ~HasCtor(orig)) =>
    /\ pc = "calls" => content = pre
    /\ pc = "write" =>
         /\ OpenersRewritten(InsertImport(orig), content)
         /\ Contains(content, ImportMarker)
         /\ Contains(content, LoggerMarker) = Contains(orig, LoggerMarker)
         /\ ENABLED WriteFile

\* The output calls this.debug and never acquires it.
C6_Witness ==
  /\ pc = "write" /\ ~HasCtor(orig)
  /\ ~Contains(orig, ImportMarker)
  /\ Contains(content, <<"this.debug", ".log(">>)
  /\ ~Contains(content, LoggerMarker)

\* The run can go on without an I/O operation raising: at the loop head
\* and at the write the next operation is enabled; a rewrite step works
\* on any text.
CanProceed ==
  /\ pc = "loop" => ENABLED (SkipMissing \/ ReadFile \/ Banner)
  /\ pc = "write" => ENABLED WriteFile
  /\ pc \in {"loop", "import", "logger", "calls", "write"}

\* C7: missing-file tolerance.  While no I/O operation has raised: a path
\* that was absent when main() started is never created; every entry
\* before the loop position is reported skipped (absent) or was updated
\* once, in mapping order, to the transform of its own content, whatever
\* entries are absent; the entries from the loop position on are
\* untouched; the run can always proceed until the banner is printed, and
\* the banner comes after a report for every entry.
C7_MissingFilesSkipped ==
  ~failed =>
    /\ \A k \in 1..N : ~fs0[k].exists => fs[k] = Absent
    /\ Processed(i - 1)
    /\ \A k \in i..N : fs[k] = fs0[k]
    /\ out = ExpectedOut(i - 1)
               \o (IF pc \in {"import", "logger", "calls", "write"}
                   THEN << <<"updating", i>> >> ELSE <<>>)
               \o (IF pc = "done" THEN << <<"complete", 0>> >> ELSE <<>>)
    /\ pc = "done" => i = N + 1
    /\ pc # "done" => CanProceed

\* The banner was reached past a missing entry, and a file after the
\* missing entry was rewritten.
C7_Witness ==
  /\ pc = "done" /\ ~ran /\ ~failed
  /\ \E k \in 1..N, m \in 1..N :
       /\ k < m
       /\ ~fs0[k].exists
       /\ fs0[m].exists /\ fs[m] # fs0[m]

\* C8: an unexpected I/O failure halts the batch.  Once a read or a write
\* has raised, the program has stopped for good: no later entry is read
\* or written (its file is as it was at the start), the entries before
\* the failing one keep their transformed content, nothing is reported
\* for the later entries, and the completion banner is not printed.
C8_FailureHalts ==
  failed =>
    /\ pc = "raised"
    /\ ~ENABLED Next
    /\ i <= N
    /\ Processed(i - 1)
    /\ \A k \in (i + 1)..N : fs[k] = fs0[k]
    /\ \A e \in 1..Len(out) : out[e][1] # "complete" /\ out[e][2] <= i

\* A failure in the middle of the table: an entry before it was rewritten
\* and an existing entry after it is left alone.
C8_Witness ==
  /\ failed /\ 1 < i /\ i < N
  /\ \E k \in 1..(i - 1) : fs0[k].exists /\ fs[k] # fs0[k]
  /\ \E k \in (i + 1)..N : fs0[k].exists /\ Transform(fs0[k].text, cfg[k]) # fs0[k].text

\* C9: the constructor anchor is non-greedy.  Where the first constructor
\* has two or more 'super();' before its first "}", the logger line is
\* spliced in immediately after the first of them.
C9_AfterFirstSuper ==
  (/\ pc = "calls" /\ ~Contains(pre, LoggerMarker) /\ HasCtor(pre)
   /\ Cardinality(FirstCtorSupers(pre)) >= 2) =>
    content = InsertAt(pre, Min(FirstCtorSupers(pre)) + Len(SuperCall) - 1,
                       LoggerLine(cfg[i]))

\* C10: fixed point on migrated text.  For a document that holds
\* 'import DebugLogger' and 'this.debug = DebugLogger.create' and none of
\* the five openers, what update_file writes back is what it read,
\* wherever the markers stand and whatever the component name.
C10_MigratedIsFixedPoint ==
  (/\ pc = "write"
   /\ Contains(orig, ImportMarker) /\ Contains(orig, LoggerMarker)
   /\ ~HasOpener(orig)) =>
    content = orig

\* On a first run: a document with both markers, an import statement and
\* a constructor, whose logger line names another component.
C10_Witness ==
  /\ pc = "write" /\ ~ran
  /\ Contains(orig, ImportMarker) /\ Contains(orig, LoggerMarker)
  /\ ~HasOpener(orig)
  /\ HasCtor(orig) /\ HasImportStmt(orig)
  /\ ~Contains(orig, LoggerLine(cfg[i]))
  /\ content = orig

=============================================================================
